---- MODULE Spec2Model ----
(***************************************************************************)
(* Model of ps2000.py, the host-side driver of the EA-PS2000 power supply: *)
(* telegram construction, checksum and error checks, the transfer          *)
(* primitive, the typed accessors, and the session with its remote scope   *)
(* (__init__, __enter__, __exit__, close).                                 *)
(*                                                                         *)
(* Python indexes sequences from 0 and TLA+ from 1: At(s, i) is s[i] of    *)
(* the source, Slice(s, a, b) is s[a:b] for a >= 0 and b < 0.              *)
(* sys.exit(1) raises SystemExit, an exception like any other: it unwinds  *)
(* the caller, and a with statement runs __exit__ on the way.              *)
(***************************************************************************)
EXTENDS Integers, Sequences, FiniteSets, TLC

VARIABLES
    pc,        \* position of the calling program
    port,      \* self.ser_dev: "unopened", "open" or "closed"
    triple,    \* self.triple, the constructor's argument
    u_nom,     \* self.u_nom, a rational [num, den]
    i_nom,     \* self.i_nom, a rational [num, den]
    wire,      \* the telegrams written to the transport, in order
    ans,       \* the bytes of the last read from the transport
    call,      \* the last operation called and how it ended
    pending,   \* the exception the with statement holds while __exit__ runs
    failedAt,  \* Len(wire) when the body of the with statement raised, else -1
    exc,       \* the exception that ended the program, "none" if none
    nops,      \* operations called so far by the program (bounded)
    probe,     \* inputs and results of the codec functions applied alone
    io,        \* the calls on the transport in order: "write" or "read"
    dev,       \* the control state of each node of the device, a byte
    args       \* the command line of the script, NoArgs for another program

vars == <<pc, port, triple, u_nom, i_nom, wire, ans, call, pending, failedAt,
          exc, nops, probe, io, dev, args>>

sessionVars == <<pc, port, triple, u_nom, i_nom, wire, ans, call, pending,
                 failedAt, exc, nops, io, dev, args>>

----------------------------------------------------------------------------
(* Bounds of the model.                                                    *)

\* operations the program calls between construction and the end of the scope
MaxOps == 1
\* longest data sequence handed to _construct alone
MaxData == 3

----------------------------------------------------------------------------
(* Bytes and Python sequence operations.                                   *)

PS_QUERY == 64
PS_SEND == 192

At(s, i) == s[i + 1]

\* s[a:b] with a >= 0 and b < 0
Slice(s, a, b) == SubSeq(s, a + 1, Len(s) + b)

RECURSIVE Sum(_)
Sum(s) == IF s = <<>> THEN 0 ELSE s[1] + Sum(Tail(s))

\* a bytearray holds integers in 0..255 and raises ValueError for another
IsBytes(s) == \A k \in 1..Len(s) : s[k] \in 0..255

SeqsUpTo(S, n) == UNION {[1..k -> S] : k \in 0..n}

----------------------------------------------------------------------------
(* Telegram codec.                                                         *)

\* mutant: the length field counts the data bytes, not the data bytes less one
StartDelimiter_len(type, data) ==
    IF Len(data) > 0 THEN 48 + type + Len(data) ELSE 48 + type

\* the start delimiter after the length update
StartDelimiter(type, data) ==
    IF Len(data) > 0 THEN 48 + type + (Len(data) - 1) ELSE 48 + type

\* mutant: the checksum is summed before the length update of the delimiter
_construct_sum_before_length(type, node, obj, data) ==
    LET telegram == <<StartDelimiter(type, data), node, obj>> \o data
        cs == Sum(<<48 + type, node, obj>> \o data)
    IN  telegram \o <<cs \div 256, cs % 256>>

\* the bytes _construct appends, before the bytearray's range check
_construct(type, node, obj, data) ==
    LET telegram == <<StartDelimiter(type, data), node, obj>> \o data
        cs == Sum(telegram)
    IN  telegram \o <<cs \div 256, cs % 256>>

\* TRUE when _check_checksum returns True, FALSE when it exits
_check_checksum(a) ==
    LET cs == Sum(Slice(a, 0, -2))
    IN  ~ ((At(a, Len(a) - 2) # (cs \div 256)) \/ (At(a, Len(a) - 1) # (cs % 256)))

\* the message _check_error prints for a code, "" when it prints none
ErrorMessage(code) ==
    CASE code = 3 -> "checksum incorrect"
      [] code = 4 -> "start delimiter incorrect"
      [] code = 5 -> "wrong address for output"
      [] code = 7 -> "object not defined"
      [] code = 8 -> "object length incorrect"
      [] code = 9 -> "access denied"
      [] code = 15 -> "device is locked"
      [] code = 48 -> "upper limit exceeded"
      [] code = 49 -> "lower limt exceeded"
      [] OTHER -> ""

\* mutant: only the codes of the table are fatal
_check_error_listed_only(a) ==
    IF At(a, 2) # 255 THEN [exits |-> FALSE, msg |-> ""]
    ELSE IF At(a, 3) = 0 THEN [exits |-> FALSE, msg |-> ""]
    ELSE [exits |-> ErrorMessage(At(a, 3)) # "", msg |-> ErrorMessage(At(a, 3))]

\* exits: whether _check_error ends in sys.exit(1) instead of returning False
_check_error(a) ==
    IF At(a, 2) # 255 THEN [exits |-> FALSE, msg |-> ""]
    ELSE IF At(a, 3) = 0 THEN [exits |-> FALSE, msg |-> ""]
    ELSE [exits |-> TRUE, msg |-> ErrorMessage(At(a, 3))]

----------------------------------------------------------------------------
(* _transfer: one telegram written, one answer read and checked.           *)

\* mutant: an answer of 4 bytes is long enough
AnswerChecks_short4(a) ==
    IF Len(a) < 4 THEN [status |-> "short answer", evaluated |-> <<>>]
    ELSE IF ~ _check_checksum(a)
         THEN [status |-> "checksum mismatch", evaluated |-> <<"_check_checksum">>]
    ELSE IF _check_error(a).exits
         THEN [status |-> "device error",
               evaluated |-> <<"_check_checksum", "_check_error">>]
    ELSE [status |-> "ok", evaluated |-> <<"_check_checksum", "_check_error">>]

\* mutant: the error code is classified before the checksum is verified
AnswerChecks_error_first(a) ==
    IF Len(a) < 5 THEN [status |-> "short answer", evaluated |-> <<>>]
    ELSE IF _check_error(a).exits
         THEN [status |-> "device error", evaluated |-> <<"_check_error">>]
    ELSE IF ~ _check_checksum(a)
         THEN [status |-> "checksum mismatch",
               evaluated |-> <<"_check_error", "_check_checksum">>]
    ELSE [status |-> "ok", evaluated |-> <<"_check_error", "_check_checksum">>]

\* the checks of _transfer on the answer read: how they end, and which of
\* them were evaluated
AnswerChecks(a) ==
    IF Len(a) < 5 THEN [status |-> "short answer", evaluated |-> <<>>]
    ELSE IF ~ _check_checksum(a)
         THEN [status |-> "checksum mismatch", evaluated |-> <<"_check_checksum">>]
    ELSE IF _check_error(a).exits
         THEN [status |-> "device error",
               evaluated |-> <<"_check_checksum", "_check_error">>]
    ELSE [status |-> "ok", evaluated |-> <<"_check_checksum", "_check_error">>]

\* mutant: a transfer whose answer fails a check writes the telegram again
_transfer_resend(type, node, obj, data, a) ==
    LET telegram == _construct(type, node, obj, data)
        chk == AnswerChecks(a)
    IN  IF ~ IsBytes(telegram)
        THEN [written |-> <<>>, read |-> FALSE, raise |-> "ValueError",
              status |-> "not sent", evaluated |-> <<>>]
        ELSE [written |-> IF chk.status = "ok" THEN <<telegram>>
                          ELSE <<telegram, telegram>>,
              read |-> TRUE,
              raise |-> IF chk.status = "ok" THEN "none" ELSE "SystemExit",
              status |-> chk.status, evaluated |-> chk.evaluated]

\* written: the telegrams handed to ser_dev.write (none when _construct raises
\* ValueError); read: whether ser_dev.read was called; raise: the exception
\* _transfer ends in, "none" when it returns the answer
_transfer(type, node, obj, data, a) ==
    LET telegram == _construct(type, node, obj, data)
        chk == AnswerChecks(a)
    IN  IF ~ IsBytes(telegram)
        THEN [written |-> <<>>, read |-> FALSE, raise |-> "ValueError",
              status |-> "not sent", evaluated |-> <<>>]
        ELSE [written |-> <<telegram>>, read |-> TRUE,
              raise |-> IF chk.status = "ok" THEN "none" ELSE "SystemExit",
              status |-> chk.status, evaluated |-> chk.evaluated]

----------------------------------------------------------------------------
(* Values: rationals for Python floats, integers, booleans, and the dicts  *)
(* of get_control and get_actual.                                          *)

Rat(n, d) == [num |-> n, den |-> d]

NoValue == [kind |-> "none", n |-> 0, d |-> 1, b |-> FALSE, on |-> FALSE]
IntValue(x) == [kind |-> "int", n |-> x, d |-> 1, b |-> FALSE, on |-> FALSE]
BoolValue(x) == [kind |-> "bool", n |-> 0, d |-> 1, b |-> x, on |-> FALSE]
FloatValue(r) ==
    [kind |-> "float", n |-> r.num, d |-> r.den, b |-> FALSE, on |-> FALSE]
\* the dict of get_control: b is control["remote"], on is control["output_on"]
ControlValue(remote, output_on) ==
    [kind |-> "control", n |-> 0, d |-> 1, b |-> remote, on |-> output_on]
\* the dict of get_actual: b is actual["remote"], on is actual["on"], n / d is
\* actual["v"]
ActualValue(remote, on, v) ==
    [kind |-> "actual", n |-> v.num, d |-> v.den, b |-> remote, on |-> on]

RECURSIVE Pow2(_)
Pow2(k) == IF k = 0 THEN 1 ELSE 2 * Pow2(k - 1)

RECURSIVE Halve(_, _)
\* n / 2^k in lowest terms
Halve(n, k) ==
    IF k = 0 THEN Rat(n, 1)
    ELSE IF n % 2 = 0 THEN Halve(n \div 2, k - 1)
    ELSE Rat(n, Pow2(k))

\* struct.unpack(">f", b)[0] for 4 bytes b: IEEE-754 single precision, big
\* endian. Modelled for zero and for the normal numbers of magnitude below
\* 2^30 (exponent field 1..156), which is where the nominal values lie.
unpack_f(b) ==
    LET sign == b[1] \div 128
        e == (b[1] % 128) * 2 + (b[2] \div 128)
        m == (b[2] % 128) * 65536 + b[3] * 256 + b[4]
        mag == IF e = 0 /\ m = 0 THEN Rat(0, 1)
               ELSE IF e >= 150 THEN Rat((8388608 + m) * Pow2(e - 150), 1)
               ELSE Halve(8388608 + m, 150 - e)
    IN  IF sign = 1 THEN Rat(0 - mag.num, mag.den) ELSE mag

\* Python 3's round(n / d) for d > 0: to the nearest integer, ties to even
RoundHalfEven(n, d) ==
    LET q == n \div d
        r == n % d
    IN  IF 2 * r < d THEN q
        ELSE IF 2 * r > d THEN q + 1
        ELSE IF q % 2 = 0 THEN q ELSE q + 1

\* int(round((p * 25600.0) / nom)) for nom # 0
ScaleToRaw(p, nom) ==
    IF nom.num > 0
    THEN RoundHalfEven(p.num * 25600 * nom.den, p.den * nom.num)
    ELSE RoundHalfEven(0 - (p.num * 25600 * nom.den), p.den * (0 - nom.num))

----------------------------------------------------------------------------
(* Typed accessors and public functions: the request each one hands to     *)
(* _transfer, and what it makes of the answer _transfer returns.           *)

Req(type, node, obj, data) ==
    [raise |-> "none", type |-> type, node |-> node, obj |-> obj, data |-> data]

\* the function raises before it calls _transfer
Raises(e) == [raise |-> e, type |-> 0, node |-> 0, obj |-> 0, data |-> <<>>]

Returns(v) == [raise |-> "none", value |-> v]
Throws(e) == [raise |-> e, value |-> NoValue]

_get_binary(obj, node) == Req(PS_QUERY, node, obj, <<>>)
_set_binary(obj, mask, data, node) == Req(PS_SEND, node, obj, <<mask, data>>)
_get_float(obj, node) == Req(PS_QUERY, node, obj, <<>>)
_get_integer(obj, node) == Req(PS_QUERY, node, obj, <<>>)
_set_integer(obj, data, node) ==
    Req(PS_SEND, node, obj, <<data \div 256, data % 256>>)

\* struct.unpack(">f", ans[3:-2])[0]: struct.error unless 4 bytes are given
_get_float_result(a) ==
    IF Len(Slice(a, 3, -2)) # 4 THEN Throws("struct.error")
    ELSE Returns(FloatValue(unpack_f(Slice(a, 3, -2))))

\* (ans[3] << 8) + ans[4]
_get_integer_result(a) == Returns(IntValue(At(a, 3) * 256 + At(a, 4)))
_set_integer_result(a) == Returns(IntValue(At(a, 3) * 256 + At(a, 4)))

get_nominal_voltage(node) == _get_float(2, node)
get_nominal_current(node) == _get_float(3, node)

\* set_OVP_threshold and set_OCP_threshold hand their argument to _set_integer
\* as it is: data >> 8 raises TypeError for a float, here a value that is no
\* integer
set_OVP_threshold(u, node) ==
    IF u.den = 1 THEN _set_integer(38, u.num, node) ELSE Raises("TypeError")
set_OCP_threshold(i, node) ==
    IF i.den = 1 THEN _set_integer(39, i.num, node) ELSE Raises("TypeError")

get_device_class(node) == _get_integer(19, node)

\* v = self._get_integer(38, node=0): the node argument is not handed on
get_OVP_threshold(node) == _get_integer(38, 0)
\* self.u_nom * v / 25600
get_OVP_threshold_result(a) ==
    LET v == At(a, 3) * 256 + At(a, 4)
    IN  Returns(FloatValue(Rat(u_nom.num * v, u_nom.den * 25600)))

get_OCP_threshold(node) == _get_integer(39, node)
\* self.i_nom * v / 25600
get_OCP_threshold_result(a) ==
    LET v == At(a, 3) * 256 + At(a, 4)
    IN  Returns(FloatValue(Rat(i_nom.num * v, i_nom.den * 25600)))

get_voltage_setpoint(node) == _get_integer(50, node)
\* self.u_nom * v / 25600
get_voltage_setpoint_result(a) ==
    LET v == At(a, 3) * 256 + At(a, 4)
    IN  Returns(FloatValue(Rat(u_nom.num * v, u_nom.den * 25600)))

get_current_setpoint(node) == _get_integer(51, node)
\* self.i_nom * i / 25600
get_current_setpoint_result(a) ==
    LET i == At(a, 3) * 256 + At(a, 4)
    IN  Returns(FloatValue(Rat(i_nom.num * i, i_nom.den * 25600)))

\* the division by self.u_nom is evaluated before _set_integer is called
set_voltage(u, node) ==
    IF u_nom.num = 0 THEN Raises("ZeroDivisionError")
    ELSE _set_integer(50, ScaleToRaw(u, u_nom), node)
set_current(i, node) ==
    IF i_nom.num = 0 THEN Raises("ZeroDivisionError")
    ELSE _set_integer(51, ScaleToRaw(i, i_nom), node)

get_control(node) == _get_binary(54, node)

\* mutant: remote is read from the two low bits, as get_actual reads it
get_control_result_two_bits(a) ==
    LET payload == Slice(a, 3, -2)
    IN  IF Len(payload) < 2 THEN Throws("IndexError")
        ELSE Returns(ControlValue(At(payload, 0) % 4 # 0, At(payload, 1) % 2 = 1))

\* ans = self._get_binary(54, node); output_on from ans[1] & 0x01, then remote
\* from ans[0] & 0x01: IndexError when the payload has fewer than 2 bytes
get_control_result(a) ==
    LET payload == Slice(a, 3, -2)
    IN  IF Len(payload) < 2 THEN Throws("IndexError")
        ELSE Returns(ControlValue(At(payload, 0) % 2 = 1, At(payload, 1) % 2 = 1))

get_output_on(node) == get_control(node)
\* self.get_control(node)["output_on"]
get_output_on_result(a) ==
    LET control == get_control_result(a)
    IN  IF control.raise # "none" THEN control
        ELSE Returns(BoolValue(control.value.on))

get_actual(node) == _get_binary(71, node)

\* ans = self._get_binary(71, node): remote from ans[0] & 0x03, on from
\* ans[1] & 0x01, v from ans[2], ans[3] and i from ans[4], ans[5]: IndexError
\* when the payload has fewer than 6 bytes
get_actual_result(a) ==
    LET payload == Slice(a, 3, -2)
        raw == At(payload, 2) * 256 + At(payload, 3)
    IN  IF Len(payload) < 6 THEN Throws("IndexError")
        ELSE Returns(ActualValue(At(payload, 0) % 4 # 0, At(payload, 1) % 2 = 1,
                                 Rat(u_nom.num * raw, u_nom.den * 25600)))

_set_control(mask, data, node) == _set_binary(54, mask, data, node)

\* ans = ans[3:-2]; return ans[0] == 0xFF and ans[1] == 0x00
_set_control_result(a) ==
    LET payload == Slice(a, 3, -2)
    IN  IF Len(payload) < 1 THEN Throws("IndexError")
        ELSE IF payload[1] # 255 THEN Returns(BoolValue(FALSE))
        ELSE IF Len(payload) < 2 THEN Throws("IndexError")
        ELSE Returns(BoolValue(payload[2] = 0))

set_remote(remote, node) ==
    IF remote THEN _set_control(16, 16, node) ELSE _set_control(16, 0, node)

\* mutant: the mask of set_output_on covers the remote bit as well
set_output_on_wide_mask(on, node) ==
    IF on THEN _set_control(17, 1, node) ELSE _set_control(17, 0, node)
set_output_on(on, node) ==
    IF on THEN _set_control(1, 1, node) ELSE _set_control(1, 0, node)

\* A call of a public function: its name and arguments.
Op(name, node, p, on) == [name |-> name, node |-> node, p |-> p, on |-> on]

Request(o) ==
    CASE o.name = "get_nominal_voltage" -> get_nominal_voltage(o.node)
      [] o.name = "get_nominal_current" -> get_nominal_current(o.node)
      [] o.name = "set_OVP_threshold" -> set_OVP_threshold(o.p, o.node)
      [] o.name = "set_OCP_threshold" -> set_OCP_threshold(o.p, o.node)
      [] o.name = "get_voltage_setpoint" -> get_voltage_setpoint(o.node)
      [] o.name = "set_voltage" -> set_voltage(o.p, o.node)
      [] o.name = "set_current" -> set_current(o.p, o.node)
      [] o.name = "set_remote" -> set_remote(o.on, o.node)
      [] o.name = "set_output_on" -> set_output_on(o.on, o.node)
      [] o.name = "get_device_class" -> get_device_class(o.node)
      [] o.name = "get_OVP_threshold" -> get_OVP_threshold(o.node)
      [] o.name = "get_OCP_threshold" -> get_OCP_threshold(o.node)
      [] o.name = "get_current_setpoint" -> get_current_setpoint(o.node)
      [] o.name = "get_control" -> get_control(o.node)
      [] o.name = "get_output_on" -> get_output_on(o.node)
      [] o.name = "get_actual" -> get_actual(o.node)

Result(o, a) ==
    CASE o.name \in {"get_nominal_voltage", "get_nominal_current"} ->
            _get_float_result(a)
      [] o.name \in {"set_OVP_threshold", "set_OCP_threshold", "set_voltage",
                     "set_current"} -> _set_integer_result(a)
      [] o.name = "get_voltage_setpoint" -> get_voltage_setpoint_result(a)
      [] o.name \in {"set_remote", "set_output_on"} -> _set_control_result(a)
      [] o.name = "get_device_class" -> _get_integer_result(a)
      [] o.name = "get_OVP_threshold" -> get_OVP_threshold_result(a)
      [] o.name = "get_OCP_threshold" -> get_OCP_threshold_result(a)
      [] o.name = "get_current_setpoint" -> get_current_setpoint_result(a)
      [] o.name = "get_control" -> get_control_result(a)
      [] o.name = "get_output_on" -> get_output_on_result(a)
      [] o.name = "get_actual" -> get_actual_result(a)

\* One call of a public function with answer a on the transport: whether it
\* got as far as calling its accessor, the telegrams it writes, whether it
\* reads, how it ends and what it returns.
Invoke(o, a) ==
    LET rq == Request(o)
    IN  IF rq.raise # "none"
        THEN [accessor |-> FALSE, written |-> <<>>, read |-> FALSE,
              outcome |-> rq.raise,
              value |-> NoValue, status |-> "not sent", evaluated |-> <<>>]
        ELSE LET t == _transfer(rq.type, rq.node, rq.obj, rq.data, a)
             IN  IF t.raise # "none"
                 THEN [accessor |-> TRUE, written |-> t.written, read |-> t.read,
                       outcome |-> t.raise, value |-> NoValue,
                       status |-> t.status, evaluated |-> t.evaluated]
                 ELSE LET r == Result(o, a)
                      IN  [accessor |-> TRUE, written |-> t.written,
                           read |-> t.read,
                           outcome |-> IF r.raise = "none" THEN "returned"
                                       ELSE r.raise,
                           value |-> r.value,
                           status |-> t.status, evaluated |-> t.evaluated]

----------------------------------------------------------------------------
(* The device's answers: what ser_dev.read(100) may return.                *)

\* a frame as the device builds it: bytes followed by their 16-bit sum
Frame(body) == body \o <<Sum(body) \div 256, Sum(body) % 256>>

\* a frame whose last checksum byte was corrupted on the line
WrongChecksum(f) == [f EXCEPT ![Len(f)] = (f[Len(f)] + 1) % 256]

Acknowledge == <<128, 0, 255, 0>>
AccessDenied == <<128, 0, 255, 9>>
Integer12800 == <<129, 0, 50, 50, 0>>

AnswerBodies ==
    { Acknowledge,
      AccessDenied,
      <<128, 0, 255, 85>>,           \* error: a code the table does not list
      <<128, 0, 50>>,                \* a frame without payload (5 bytes)
      Integer12800,
      <<129, 0, 54, 255, 0>>,        \* payload FF 00
      <<131, 0, 2, 65, 192, 0, 0>>,  \* float 24.0
      <<131, 0, 2, 0, 0, 0, 0>> }    \* float 0.0

GoodFrames == {Frame(b) : b \in AnswerBodies}
BadFrames ==
    {WrongChecksum(Frame(b)) : b \in {Acknowledge, AccessDenied, Integer12800}}

\* reads cut short by the timeout, and a 4-byte answer whose last two bytes
\* are the sum of its first two
ShortAnswers ==
    {SubSeq(Frame(b), 1, k) : b \in {Acknowledge, AccessDenied}, k \in 0..4}
    \cup {<<128, 0, 0, 128>>}

Answers == GoodFrames \cup BadFrames \cup ShortAnswers

----------------------------------------------------------------------------
(* The device's control state. A Send to object 54 carries a mask byte and *)
(* a data byte, and the device merges the masked bits of the data into the *)
(* node's control byte: bit 0x10 is remote control, bit 0x01 the output.   *)

RECURSIVE BitAnd(_, _)
\* x & y
BitAnd(x, y) ==
    IF x = 0 \/ y = 0 THEN 0
    ELSE (x % 2) * (y % 2) + 2 * BitAnd(x \div 2, y \div 2)

DeviceMerge(ctl, mask, data) == BitAnd(ctl, 255 - mask) + BitAnd(data, mask)

\* a Send telegram to object 54 with its two data bytes
IsControlSend(t) == Len(t) = 7 /\ t[1] = 241 /\ t[3] = 54

RECURSIVE DeviceAfter(_, _)
\* the control state after the device received the telegrams ts
DeviceAfter(d, ts) ==
    IF ts = <<>> THEN d
    ELSE LET t == Head(ts)
         IN  DeviceAfter(IF IsControlSend(t) /\ t[2] \in DOMAIN d
                         THEN [d EXCEPT ![t[2]] = DeviceMerge(@, t[4], t[5])]
                         ELSE d,
                         Tail(ts))

RemoteBit(ctl) == BitAnd(ctl, 16) # 0
OutputBit(ctl) == BitAnd(ctl, 1) # 0

----------------------------------------------------------------------------
(* The session and the program that uses it.                               *)
(*                                                                         *)
(* pc: "new" before the constructor; "init_u", "init_i" inside it, before  *)
(* each of its two reads; "local" once constructed; "enter1" inside        *)
(* __enter__ of a triple session, before node 1; "body" inside the with    *)
(* statement; "exit0", "exit1" inside __exit__, before each node's         *)
(* release; "done" when the program ended normally and "dead" when an      *)
(* exception ended it.                                                     *)

Nodes == {0, 1}
PhysArgs == {Rat(12, 1)}
NoArg == Rat(0, 1)

\* a voltage beyond 2.56 times a nominal voltage of 24: its raw value needs
\* more than 16 bits
OverRangeOp == Op("set_voltage", 0, Rat(100, 1), FALSE)

ScopeOps ==
    {Op(n, node, p, FALSE) :
        n \in {"set_voltage", "set_current", "set_OVP_threshold",
               "set_OCP_threshold"},
        node \in Nodes, p \in PhysArgs}
    \cup {Op("set_output_on", node, NoArg, on) : node \in Nodes, on \in BOOLEAN}
    \cup {Op("get_voltage_setpoint", node, NoArg, FALSE) : node \in Nodes}
    \cup {OverRangeOp}

NoCall ==
    [name |-> "none", node |-> 0, p |-> NoArg, on |-> FALSE, at |-> "none",
     outcome |-> "none",
     value |-> NoValue, status |-> "not sent", evaluated |-> <<>>,
     accessor |-> FALSE, writes |-> 0, reads |-> 0]

\* the script was not started: the session is used by another program
NoArgs == [mode |-> "none", node |-> 0, verbose |-> FALSE]

\* the device after power-up: every node under local control, its output off
DevicePowerUp == [n \in Nodes |-> 0]

NoProbe ==
    [stage |-> "none", type |-> 0, node |-> 0, obj |-> 0, data |-> <<>>,
     telegram |-> <<>>, sumok |-> FALSE, a |-> <<>>,
     err |-> [exits |-> FALSE, msg |-> ""]]

\* the transport and the record of the call, after o was called at pc with
\* answer a
Perform(o, a, inv) ==
        /\ wire' = wire \o inv.written
        /\ ans' = IF inv.read THEN a ELSE ans
        /\ io' = io \o [k \in 1..Len(inv.written) |-> "write"]
                    \o (IF inv.read THEN <<"read">> ELSE <<>>)
        /\ dev' = DeviceAfter(dev, inv.written)
        /\ call' = [name |-> o.name, node |-> o.node, p |-> o.p, on |-> o.on,
                    at |-> pc,
                    outcome |-> inv.outcome, value |-> inv.value,
                    status |-> inv.status, evaluated |-> inv.evaluated,
                    accessor |-> inv.accessor, writes |-> Len(inv.written),
                    reads |-> IF inv.read THEN 1 ELSE 0]

Init ==
    /\ pc = "new"
    /\ port = "unopened"
    /\ triple \in BOOLEAN
    /\ u_nom = Rat(0, 1)
    /\ i_nom = Rat(0, 1)
    /\ wire = <<>>
    /\ ans = <<>>
    /\ call = NoCall
    /\ pending = "none"
    /\ failedAt = -1
    /\ exc = "none"
    /\ nops = 0
    /\ probe = NoProbe
    /\ io = <<>>
    /\ dev = DevicePowerUp
    /\ args = NoArgs

\* serial.Serial(port, ...) opens the port
Open ==
    /\ pc = "new"
    /\ port' = "open"
    /\ pc' = "init_u"
    /\ UNCHANGED <<triple, u_nom, i_nom, wire, ans, call, pending, failedAt,
                   exc, nops, probe, io, dev, args>>

\* serial.Serial raises SerialException: no such port, or it is busy
OpenFails ==
    /\ pc = "new"
    /\ pc' = "dead"
    /\ exc' = "SerialException"
    /\ UNCHANGED <<port, triple, u_nom, i_nom, wire, ans, call, pending,
                   failedAt, nops, probe, io, dev, args>>

\* self.u_nom = self.get_nominal_voltage()
InitNominalVoltage ==
    /\ pc = "init_u"
    /\ \E a \in Answers :
        \E o \in {Op("get_nominal_voltage", 0, NoArg, FALSE)} : \E inv \in {Invoke(o, a)} :
            /\ Perform(o, a, inv)
            /\ IF inv.outcome = "returned"
               THEN /\ u_nom' = Rat(inv.value.n, inv.value.d)
                    /\ pc' = "init_i"
                    /\ exc' = exc
               ELSE /\ u_nom' = u_nom
                    /\ pc' = "dead"
                    /\ exc' = inv.outcome
    /\ UNCHANGED <<port, triple, i_nom, pending, failedAt, nops, probe, args>>

\* mutant: the constructor goes on when its second read fails
InitNominalCurrent_goes_on ==
    /\ pc = "init_i"
    /\ \E a \in Answers :
        \E o \in {Op("get_nominal_current", 0, NoArg, FALSE)} : \E inv \in {Invoke(o, a)} :
            /\ Perform(o, a, inv)
            /\ i_nom' = IF inv.outcome = "returned"
                        THEN Rat(inv.value.n, inv.value.d) ELSE i_nom
            /\ pc' = "local"
            /\ exc' = exc
    /\ UNCHANGED <<port, triple, u_nom, pending, failedAt, nops, probe, args>>

\* self.i_nom = self.get_nominal_current(); self.triple = triple
InitNominalCurrent ==
    /\ pc = "init_i"
    /\ \E a \in Answers :
        \E o \in {Op("get_nominal_current", 0, NoArg, FALSE)} : \E inv \in {Invoke(o, a)} :
            /\ Perform(o, a, inv)
            /\ IF inv.outcome = "returned"
               THEN /\ i_nom' = Rat(inv.value.n, inv.value.d)
                    /\ pc' = "local"
                    /\ exc' = exc
               ELSE /\ i_nom' = i_nom
                    /\ pc' = "dead"
                    /\ exc' = inv.outcome
    /\ UNCHANGED <<port, triple, u_nom, pending, failedAt, nops, probe, args>>

\* a public function called on the session outside a with statement
LocalCall ==
    /\ pc = "local"
    /\ nops < MaxOps
    /\ \E o \in ScopeOps, a \in Answers :
        \E inv \in {Invoke(o, a)} :
            /\ Perform(o, a, inv)
            /\ IF inv.outcome = "returned"
               THEN pc' = "local" /\ exc' = exc
               ELSE pc' = "dead" /\ exc' = inv.outcome
    /\ nops' = nops + 1
    /\ UNCHANGED <<port, triple, u_nom, i_nom, pending, failedAt, probe,
                   args>>

\* close() called on a session that never entered the with statement
CloseLocal ==
    /\ pc = "local"
    /\ port' = "closed"
    /\ pc' = "done"
    /\ UNCHANGED <<triple, u_nom, i_nom, wire, ans, call, pending, failedAt,
                   exc, nops, probe, io, dev, args>>

\* where __enter__ goes on after node 0: if self.triple, node 1
AfterEnter0 == IF triple THEN "enter1" ELSE "body"

\* __enter__, first call: self.set_remote(True)
EnterNode0 ==
    /\ pc = "local"
    /\ \E a \in Answers :
        \E o \in {Op("set_remote", 0, NoArg, TRUE)} : \E inv \in {Invoke(o, a)} :
            /\ Perform(o, a, inv)
            /\ IF inv.outcome = "returned"
               THEN pc' = AfterEnter0 /\ exc' = exc
               ELSE pc' = "dead" /\ exc' = inv.outcome
    /\ UNCHANGED <<port, triple, u_nom, i_nom, pending, failedAt, nops,
                   probe, args>>

\* __enter__, second call: self.set_remote(True, 1)
EnterNode1 ==
    /\ pc = "enter1"
    /\ \E a \in Answers :
        \E o \in {Op("set_remote", 1, NoArg, TRUE)} : \E inv \in {Invoke(o, a)} :
            /\ Perform(o, a, inv)
            /\ IF inv.outcome = "returned"
               THEN pc' = "body" /\ exc' = exc
               ELSE pc' = "dead" /\ exc' = inv.outcome
    /\ UNCHANGED <<port, triple, u_nom, i_nom, pending, failedAt, nops,
                   probe, args>>

\* mutant: the body's exception ends the program at once, as it would without
\* a with statement
WithBodyRaises_no_exit == "dead"

\* where control goes when the body of the with statement raises: the with
\* statement calls __exit__ and raises the exception again afterwards
WithBodyRaises == "exit0"

\* a public function called in the body of the with statement
BodyCall ==
    /\ pc = "body"
    /\ nops < MaxOps
    /\ \E o \in ScopeOps, a \in Answers :
        \E inv \in {Invoke(o, a)} :
            /\ Perform(o, a, inv)
            /\ IF inv.outcome = "returned"
               THEN /\ pc' = "body"
                    /\ pending' = pending
                    /\ failedAt' = failedAt
               ELSE /\ pc' = WithBodyRaises
                    /\ pending' = inv.outcome
                    /\ failedAt' = Len(wire')
    /\ nops' = nops + 1
    /\ UNCHANGED <<port, triple, u_nom, i_nom, exc, probe, args>>

\* the body of the with statement ends without an exception
LeaveBody ==
    /\ pc = "body"
    /\ pc' = "exit0"
    /\ UNCHANGED <<port, triple, u_nom, i_nom, wire, ans, call, pending,
                   failedAt, exc, nops, probe, io, dev, args>>

\* self.close(), the last statement of __exit__; the with statement then
\* raises the body's exception again, if there is one
CloseAtExit ==
    /\ port' = "closed"
    /\ exc' = pending
    /\ pc' = IF pending = "none" THEN "done" ELSE "dead"

\* where __exit__ goes on after node 0: if self.triple, node 1
AfterExit0 == IF triple THEN "exit1" ELSE "close"

\* __exit__, first call: self.set_remote(False); close() if not triple
ExitNode0 ==
    /\ pc = "exit0"
    /\ \E a \in Answers :
        \E o \in {Op("set_remote", 0, NoArg, FALSE)} : \E inv \in {Invoke(o, a)} :
            /\ Perform(o, a, inv)
            /\ IF inv.outcome # "returned"
               THEN pc' = "dead" /\ exc' = inv.outcome /\ port' = port
               ELSE IF AfterExit0 = "exit1"
               THEN pc' = "exit1" /\ exc' = exc /\ port' = port
               ELSE CloseAtExit
    /\ UNCHANGED <<triple, u_nom, i_nom, pending, failedAt, nops, probe,
                   args>>

\* __exit__, second call: self.set_remote(False, 1); then close()
ExitNode1 ==
    /\ pc = "exit1"
    /\ \E a \in Answers :
        \E o \in {Op("set_remote", 1, NoArg, FALSE)} : \E inv \in {Invoke(o, a)} :
            /\ Perform(o, a, inv)
            /\ IF inv.outcome # "returned"
               THEN pc' = "dead" /\ exc' = inv.outcome /\ port' = port
               ELSE CloseAtExit
    /\ UNCHANGED <<triple, u_nom, i_nom, pending, failedAt, nops, probe,
                   args>>

Next ==
    \/ Open
    \/ OpenFails
    \/ InitNominalVoltage
    \/ InitNominalCurrent
    \/ LocalCall
    \/ CloseLocal
    \/ EnterNode0
    \/ EnterNode1
    \/ BodyCall
    \/ LeaveBody
    \/ ExitNode0
    \/ ExitNode1

Spec == Init /\ [][Next]_vars

----------------------------------------------------------------------------
(* One call of a public function on a constructed session, for every       *)
(* function of the model, every node, arguments in and out of the 16-bit   *)
(* range, every answer and every control state the device may be in.       *)

\* 100 is beyond 2.56 times a nominal value of 24: its raw value needs more
\* than 16 bits
AccessArgs == {Rat(12, 1), Rat(100, 1)}

AccessOps ==
    {Op(n, node, p, FALSE) :
        n \in {"set_voltage", "set_current", "set_OVP_threshold",
               "set_OCP_threshold"},
        node \in Nodes, p \in AccessArgs}
    \cup {Op(n, node, NoArg, on) :
            n \in {"set_remote", "set_output_on"}, node \in Nodes,
            on \in BOOLEAN}
    \cup {Op(n, node, NoArg, FALSE) :
            n \in {"get_device_class", "get_OVP_threshold", "get_OCP_threshold",
                   "get_voltage_setpoint", "get_current_setpoint",
                   "get_control", "get_output_on", "get_actual"},
            node \in Nodes}

\* values of the two payload bytes of object 54
ControlBytes == {0, 1, 2, 16, 254, 255}
ControlFrames == {Frame(<<129, 0, 54, x, y>>) : x, y \in ControlBytes}

\* object 71: remote, output on, 12.0 V of 24.0 V, 6.0 A of 24.0 A
ActualFrame == Frame(<<133, 0, 71, 1, 1, 50, 0, 25, 0>>)

AccessAnswers == Answers \cup ControlFrames \cup {ActualFrame}

\* the control byte of a node: remote or not, output on or off
DeviceStates == {0, 1, 16, 17}

InitAccess ==
    /\ pc = "new"
    /\ port = "unopened"
    /\ triple = FALSE
    /\ u_nom = Rat(0, 1)
    /\ i_nom = Rat(0, 1)
    /\ wire = <<>>
    /\ ans = <<>>
    /\ call = NoCall
    /\ pending = "none"
    /\ failedAt = -1
    /\ exc = "none"
    /\ nops = 0
    /\ probe = NoProbe
    /\ io = <<>>
    /\ dev \in [Nodes -> DeviceStates]
    /\ args = NoArgs

\* the one call: pc is "returned" after it unless it raised
AccessCall ==
    /\ pc = "local"
    /\ \E o \in AccessOps, a \in AccessAnswers :
        \E inv \in {Invoke(o, a)} :
            /\ Perform(o, a, inv)
            /\ IF inv.outcome = "returned"
               THEN pc' = "returned" /\ exc' = exc
               ELSE pc' = "dead" /\ exc' = inv.outcome
    /\ nops' = nops + 1
    /\ UNCHANGED <<port, triple, u_nom, i_nom, pending, failedAt, probe,
                   args>>

NextAccess ==
    \/ Open
    \/ OpenFails
    \/ InitNominalVoltage
    \/ InitNominalCurrent
    \/ AccessCall

SpecAccess == InitAccess /\ [][NextAccess]_vars

----------------------------------------------------------------------------
(* The script: python ps2000.py -p PORT [-v] [-n NODE] --on|--off|--toggle *)
(* (--info prints the identification of the device and sets nothing).     *)

MainArgs ==
    {[mode |-> m, node |-> n, verbose |-> v] :
        m \in {"on", "off", "toggle"}, n \in Nodes, v \in BOOLEAN}

\* mutant: the session is never opened as a triple session
device_triple_never(node) == FALSE

\* device_triple is True if args.node != 0
device_triple(node) == node # 0

\* if args.verbose, before the command: the setpoints and the actual values
VerboseBefore(node) ==
    <<Op("get_voltage_setpoint", node, NoArg, FALSE),
      Op("get_current_setpoint", node, NoArg, FALSE),
      Op("get_actual", node, NoArg, FALSE),
      Op("get_actual", node, NoArg, FALSE)>>

\* if args.verbose, after the command: the actual values
VerboseAfter(node) ==
    <<Op("get_actual", node, NoArg, FALSE),
      Op("get_actual", node, NoArg, FALSE)>>

\* the command; output_on is what get_output_on returned to --toggle
Command(a, output_on) ==
    CASE a.mode = "on" -> <<Op("set_output_on", a.node, NoArg, TRUE)>>
      [] a.mode = "off" -> <<Op("set_output_on", a.node, NoArg, FALSE)>>
      [] a.mode = "toggle" ->
            <<Op("get_output_on", a.node, NoArg, FALSE),
              Op("set_output_on", a.node, NoArg, ~ output_on)>>

\* the calls of the body of the with statement, in order
MainScript(a, output_on) ==
    (IF a.verbose THEN VerboseBefore(a.node) ELSE <<>>)
    \o Command(a, output_on)
    \o (IF a.verbose THEN VerboseAfter(a.node) ELSE <<>>)

\* answers to the calls of the body: those of Answers, an answer to
\* get_actual and an answer to get_output_on with the output on
MainAnswers == Answers \cup {ActualFrame, Frame(<<129, 0, 54, 1, 1>>)}

InitMain ==
    /\ pc = "new"
    /\ port = "unopened"
    /\ args \in MainArgs
    /\ triple = device_triple(args.node)
    /\ u_nom = Rat(0, 1)
    /\ i_nom = Rat(0, 1)
    /\ wire = <<>>
    /\ ans = <<>>
    /\ call = NoCall
    /\ pending = "none"
    /\ failedAt = -1
    /\ exc = "none"
    /\ nops = 0
    /\ probe = NoProbe
    /\ io = <<>>
    /\ dev = DevicePowerUp

\* the next call of the body; when --toggle sets the output, the call before
\* it was get_output_on and call.value.b is what it returned
MainStep ==
    /\ pc = "body"
    /\ nops < Len(MainScript(args, FALSE))
    /\ \E o \in {MainScript(args, call.value.b)[nops + 1]}, a \in MainAnswers :
        \E inv \in {Invoke(o, a)} :
            /\ Perform(o, a, inv)
            /\ IF inv.outcome = "returned"
               THEN /\ pc' = "body"
                    /\ pending' = pending
                    /\ failedAt' = failedAt
               ELSE /\ pc' = WithBodyRaises
                    /\ pending' = inv.outcome
                    /\ failedAt' = Len(wire')
    /\ nops' = nops + 1
    /\ UNCHANGED <<port, triple, u_nom, i_nom, exc, probe, args>>

\* the body of the with statement has made its last call
MainLeave ==
    /\ pc = "body"
    /\ nops = Len(MainScript(args, FALSE))
    /\ pc' = "exit0"
    /\ UNCHANGED <<port, triple, u_nom, i_nom, wire, ans, call, pending,
                   failedAt, exc, nops, probe, io, dev, args>>

NextMain ==
    \/ Open
    \/ OpenFails
    \/ InitNominalVoltage
    \/ InitNominalCurrent
    \/ EnterNode0
    \/ EnterNode1
    \/ MainStep
    \/ MainLeave
    \/ ExitNode0
    \/ ExitNode1

SpecMain == InitMain /\ [][NextMain]_vars

----------------------------------------------------------------------------
(* The codec functions applied alone, to arguments drawn from bounded sets.*)

ProbeBytes == {0, 1, 255}
FrameTypes == {PS_QUERY, PS_SEND}

\* arguments of _construct
ConstructArgs ==
    {[NoProbe EXCEPT !.stage = "args", !.type = t, !.node = n, !.obj = ob,
                     !.data = d] :
        t \in FrameTypes, n \in ProbeBytes, ob \in {0, 2, 54, 255},
        d \in SeqsUpTo(ProbeBytes, MaxData)}

\* answers handed to _check_error: every value of byte 3, behind a marker
\* byte that is 0xFF or not, in frames of 5 and of 6 bytes
ErrorArgs ==
    {[NoProbe EXCEPT !.stage = "answer", !.a = <<128, 0, m, c>> \o rest] :
        m \in {255, 254, 54, 0}, c \in 0..255, rest \in {<<7>>, <<1, 2>>}}

InitCodec ==
    /\ pc = "new"
    /\ port = "unopened"
    /\ triple = FALSE
    /\ u_nom = Rat(0, 1)
    /\ i_nom = Rat(0, 1)
    /\ wire = <<>>
    /\ ans = <<>>
    /\ call = NoCall
    /\ pending = "none"
    /\ failedAt = -1
    /\ exc = "none"
    /\ nops = 0
    /\ probe \in ConstructArgs \cup ErrorArgs
    /\ io = <<>>
    /\ dev = DevicePowerUp
    /\ args = NoArgs

\* telegram = _construct(type, node, obj, data); ValueError when a byte is
\* out of range
ApplyConstruct ==
    /\ probe.stage = "args"
    /\ \E t \in {_construct(probe.type, probe.node, probe.obj, probe.data)} :
        probe' = IF IsBytes(t)
                 THEN [probe EXCEPT !.stage = "constructed", !.telegram = t]
                 ELSE [probe EXCEPT !.stage = "ValueError"]
    /\ UNCHANGED sessionVars

\* _check_checksum(telegram) on the telegram just built
ApplyCheckChecksum ==
    /\ probe.stage = "constructed"
    /\ probe' = [probe EXCEPT !.stage = "checked",
                              !.sumok = _check_checksum(probe.telegram)]
    /\ UNCHANGED sessionVars

\* _check_error(a)
ApplyCheckError ==
    /\ probe.stage = "answer"
    /\ probe' = [probe EXCEPT !.stage = "classified", !.err = _check_error(probe.a)]
    /\ UNCHANGED sessionVars

NextCodec ==
    \/ ApplyConstruct
    \/ ApplyCheckChecksum
    \/ ApplyCheckError

SpecCodec == InitCodec /\ [][NextCodec]_vars

----------------------------------------------------------------------------
(* Properties.                                                             *)

\* t is the Send telegram of set_remote(on, node): object 54, mask 0x10
IsSetRemote(t, node, on) ==
    /\ Len(t) = 7
    /\ t[1] = 241
    /\ t[2] = node
    /\ t[3] = 54
    /\ t[4] = 16
    /\ t[5] = IF on THEN 16 ELSE 0

Ended == pc \in {"done", "dead"}

\* the last call wrote a telegram and read an answer
Sent == call.name # "none" /\ call.status # "not sent"

\* C1: when an operation in the body of the with statement fails, then once
\* __exit__ has taken its first step the telegram of set_remote(False) for
\* node 0 is on the wire, written after the failure; in particular it is
\* there when the program has ended.
C1_ReleaseAfterFailure ==
    (failedAt >= 0 /\ pc # "exit0") =>
        \E k \in (failedAt + 1)..Len(wire) : IsSetRemote(wire[k], 0, FALSE)

\* C1 witness: a body operation failed in _transfer, the release was written
\* after it and the program ended with that failure.
C1_Witness ==
    /\ pc = "dead"
    /\ failedAt >= 0
    /\ exc = "SystemExit"
    /\ Len(wire) > failedAt
    /\ IsSetRemote(wire[Len(wire)], 0, FALSE)

\* C2: when the program has ended, every node to which set-remote(true) was
\* written has had set-remote(false) written to it afterwards.
C2_SymmetricRelease ==
    Ended =>
        \A node \in Nodes : \A k \in 1..Len(wire) :
            IsSetRemote(wire[k], node, TRUE) =>
                \E j \in (k + 1)..Len(wire) : IsSetRemote(wire[j], node, FALSE)

\* C3: the telegram _construct builds passes _check_checksum: its last two
\* bytes are the high and the low byte of the sum of the bytes before them.
C3_ChecksumRoundTrip ==
    probe.stage = "checked" =>
        LET t == probe.telegram
            before == SubSeq(t, 1, Len(t) - 2)
        IN  /\ probe.sumok
            /\ t[Len(t) - 1] = Sum(before) \div 256
            /\ t[Len(t)] = Sum(before) % 256

\* C3 witness: a Send telegram with data whose sum carries into the high byte
\* was built and checked.
C3_Witness ==
    /\ probe.stage = "checked"
    /\ probe.type = PS_SEND
    /\ Len(probe.data) >= 2
    /\ probe.telegram[Len(probe.telegram) - 1] > 0

\* C4: _construct returns [delimiter, node, object, data..., cs_hi, cs_lo],
\* the delimiter being 0x30 + type for no data and 0x30 + type + len - 1
\* otherwise; the Query for node 0, object 2 is 70 00 02 00 72.
C4_FrameLayout ==
    probe.stage \in {"constructed", "checked"} =>
        LET t == probe.telegram
            n == Len(probe.data)
            delimiter == IF n = 0 THEN 48 + probe.type ELSE 48 + probe.type + n - 1
            cs == delimiter + probe.node + probe.obj + Sum(probe.data)
        IN  /\ t = <<delimiter, probe.node, probe.obj>> \o probe.data
                        \o <<cs \div 256, cs % 256>>
            /\ (probe.type = 64 /\ probe.node = 0 /\ probe.obj = 2 /\ n = 0)
                    => t = <<112, 0, 2, 0, 114>>

\* C4 witness: the Query for node 0, object 2 was built.
C4_Witness ==
    /\ probe.stage = "constructed"
    /\ probe.type = 64 /\ probe.node = 0 /\ probe.obj = 2 /\ probe.data = <<>>
    /\ probe.telegram = <<112, 0, 2, 0, 114>>

\* C5: when the read returns fewer than 5 bytes, whatever they are, the call
\* ends in the short-answer exit and neither check was evaluated.
C5_ShortAnswer ==
    (Sent /\ Len(ans) < 5) =>
        /\ call.status = "short answer"
        /\ call.outcome = "SystemExit"
        /\ call.evaluated = <<>>

\* C5 witness: a 4-byte answer whose bytes would pass both checks was read.
C5_Witness ==
    /\ Sent
    /\ ans = <<128, 0, 0, 128>>
    /\ call.status = "short answer"

\* the last two bytes of a are the 16-bit sum of the bytes before them
ChecksumValid(a) ==
    a[Len(a) - 1] * 256 + a[Len(a)] = Sum(SubSeq(a, 1, Len(a) - 2))

\* C6: on an answer of at least 5 bytes a wrong checksum ends the call as a
\* checksum mismatch whatever the error marker says, and the checksum is
\* evaluated first; _transfer returns the answer exactly when it has at
\* least 5 bytes, a valid checksum and not (byte 2 = 0xFF and byte 3 # 0).
C6_CheckOrder ==
    Sent =>
        /\ (Len(ans) >= 5 /\ ~ ChecksumValid(ans)) =>
                /\ call.status = "checksum mismatch"
                /\ call.evaluated = <<"_check_checksum">>
        /\ Len(ans) >= 5 => call.evaluated[1] = "_check_checksum"
        /\ (call.status = "ok") <=>
                /\ Len(ans) >= 5
                /\ ChecksumValid(ans)
                /\ ~ (ans[3] = 255 /\ ans[4] # 0)

\* C6 witness: an answer with the error marker, code 0x09 and a wrong
\* checksum was read and ended as a checksum mismatch.
C6_Witness ==
    /\ Sent
    /\ ans = <<128, 0, 255, 9, 1, 137>>
    /\ call.status = "checksum mismatch"

\* C7: _check_error reports no error unless byte 2 is 0xFF, none when byte 3
\* is 0x00, and exits for every other byte 3, in the table or not; 0x09 is
\* access denied.
C7_ErrorClassification ==
    probe.stage = "classified" =>
        LET marker == probe.a[3]
            code == probe.a[4]
        IN  /\ marker # 255 => ~ probe.err.exits
            /\ (marker = 255 /\ code = 0) => ~ probe.err.exits
            /\ (marker = 255 /\ code # 0) => probe.err.exits
            /\ (marker = 255 /\ code = 9) => probe.err.msg = "access denied"
            /\ (marker = 255 /\ code \in {3, 4, 5, 7, 8, 9, 15, 48, 49})
                    => probe.err.msg # ""

\* C7 witness: a code the table does not list was classified as fatal.
C7_Witness ==
    /\ probe.stage = "classified"
    /\ probe.a[3] = 255
    /\ probe.a[4] = 85
    /\ probe.err.exits

\* C8: with a nominal voltage (current) of 0, set_voltage (set_current) ends
\* in a dedicated invalid-nominal error before any telegram is written, and
\* never in a division by zero.
C8_ZeroNominalGuard ==
    /\ ((call.name = "set_voltage" /\ u_nom.num = 0)
            \/ (call.name = "set_current" /\ i_nom.num = 0)) =>
                /\ call.outcome = "InvalidNominalError"
                /\ call.status = "not sent"
    /\ "ZeroDivisionError" \notin {call.outcome, pending, exc}

SetterNames ==
    {"set_voltage", "set_current", "set_OVP_threshold", "set_OCP_threshold",
     "set_output_on"}

\* C9: a set operation called while the session is open and not in its
\* remote scope fails; a set operation returns only when called inside the
\* scope. (Whatever the error is called: any way of not returning counts as
\* the failure the claim asks for.)
C9_RemoteOnlyWrites ==
    (call.name \in SetterNames /\ call.outcome = "returned") => call.at = "body"

\* byte 2 = 0xFF and byte 3 = 0x00: the device's acknowledge
IsAcknowledge(a) == Len(a) >= 5 /\ a[3] = 255 /\ a[4] = 0

\* set-remote(true) for node 0 is on the wire
Entered == \E k \in 1..Len(wire) : IsSetRemote(wire[k], 0, TRUE)

\* C10: in a run in which no transfer fails, an operation of the body is
\* written after set-remote(true) and before any set-remote(false); the
\* scope ends with the port closed, set-remote(false) the last telegram
\* written, and the port closed only after that was acknowledged.
C10_SessionLifecycle ==
    /\ (call.at = "body" /\ Sent) =>
            /\ \E k \in 1..(Len(wire) - 1) : IsSetRemote(wire[k], 0, TRUE)
            /\ \A k \in 1..Len(wire) : ~ IsSetRemote(wire[k], 0, FALSE)
    /\ (Entered /\ Ended /\ exc # "SystemExit" /\ pending # "SystemExit") =>
            /\ port = "closed"
            /\ IsSetRemote(wire[Len(wire)], IF triple THEN 1 ELSE 0, FALSE)
    /\ (Entered /\ port = "closed") => IsAcknowledge(ans)

\* the last telegram on the wire
LastTelegram == wire[Len(wire)]

\* C11: set_remote and set_output_on each write exactly one Send telegram to
\* object 54, and for every answer _transfer accepts they return, and return
\* true exactly when the answer is an acknowledge: byte 2 = 0xFF, byte 3 = 0.
C11_AcknowledgeResult ==
    (call.name \in {"set_remote", "set_output_on"} /\ call.status = "ok") =>
        /\ call.writes = 1
        /\ IsControlSend(LastTelegram)
        /\ call.outcome = "returned"
        /\ call.value.b = IsAcknowledge(ans)

ScaledSetterNames ==
    {"set_voltage", "set_current", "set_OVP_threshold", "set_OCP_threshold"}

\* the nominal value that scales the argument of the setter called last
NominalOfCall ==
    IF call.name \in {"set_voltage", "set_OVP_threshold"} THEN u_nom ELSE i_nom

\* C12: set_voltage, set_current, set_OVP_threshold and set_OCP_threshold,
\* called with a physical value p while the nominal value n is positive, write
\* one Send telegram whose data bytes are the high and low byte of
\* round(p * 25600 / n); 12.0 of nominal 24.0 is sent as 0x32 0x00.
C12_ScaledSetters ==
    (call.name \in ScaledSetterNames /\ NominalOfCall.num > 0) =>
        LET raw == RoundHalfEven(call.p.num * 25600 * NominalOfCall.den,
                                 call.p.den * NominalOfCall.num)
        IN  /\ call.writes = 1
            /\ LastTelegram[1] = 241
            /\ SubSeq(LastTelegram, 4, 5) = <<raw \div 256, raw % 256>>
            /\ (call.p = Rat(12, 1) /\ NominalOfCall = Rat(24, 1)) =>
                    SubSeq(LastTelegram, 4, 5) = <<50, 0>>

\* the request the function called last handed to its accessor
CallRequest == Request(Op(call.name, call.node, call.p, call.on))

\* writes and reads alternate on the transport, a write first
Alternates ==
    \A k \in 1..Len(io) : io[k] = IF k % 2 = 1 THEN "write" ELSE "read"

C14_NodeAddressing ==
    (call.name # "none" /\ call.writes = 1) =>
        /\ LastTelegram[2] = call.node
        /\ (call.name = "get_OVP_threshold" /\ call.node = 1) =>
                SubSeq(LastTelegram, 1, 3) = <<112, 1, 38>>
        /\ (call.name = "get_OCP_threshold" /\ call.node = 1) =>
                SubSeq(LastTelegram, 1, 3) = <<112, 1, 39>>

\* the functions that return the value of _get_integer or _set_integer as it is
RawIntegerNames == {"get_device_class"} \cup ScaledSetterNames

\* C15: on an answer _transfer accepts, _get_integer and _set_integer return
\* hi * 256 + lo of the first two bytes of the payload ans[3:-2]; no checksum
\* byte is part of a value returned, so an accepted answer of 5 or 6 bytes,
\* whose payload has fewer than two bytes, yields no value.
C15_IntegerPayload ==
    (call.name \in RawIntegerNames /\ call.status = "ok") =>
        LET payload == Slice(ans, 3, -2)
        IN  IF Len(payload) >= 2
            THEN /\ call.outcome = "returned"
                 /\ call.value = IntValue(payload[1] * 256 + payload[2])
            ELSE call.outcome # "returned"

\* C16: set_remote sends mask 0x10 with data 0x10 or 0x00 and set_output_on
\* sends mask 0x01 with data 0x01 or 0x00; on a device that merges only the
\* masked bits, set_remote leaves the output state of every node as it was
\* and set_output_on leaves the remote state of every node as it was, and
\* neither changes a node it was not called for, whatever the control state
\* before the call.
C16_MaskedBits ==
    [][(call'.name \in {"set_remote", "set_output_on"}
            /\ Len(wire') = Len(wire) + 1) =>
        LET t == wire'[Len(wire')]
            mask == IF call'.name = "set_remote" THEN 16 ELSE 1
        IN  /\ IsControlSend(t)
            /\ t[4] = mask
            /\ t[5] = IF call'.on THEN mask ELSE 0
            /\ \A n \in Nodes :
                    /\ n # call'.node => dev'[n] = dev[n]
                    /\ call'.name = "set_remote" =>
                            OutputBit(dev'[n]) = OutputBit(dev[n])
                    /\ call'.name = "set_output_on" =>
                            RemoteBit(dev'[n]) = RemoteBit(dev[n])
            /\ call'.name = "set_remote" =>
                    RemoteBit(dev'[call'.node]) = call'.on
            /\ call'.name = "set_output_on" =>
                    OutputBit(dev'[call'.node]) = call'.on]_vars

\* C16 witness: set_output_on(True, 1) was sent to a device whose nodes were
\* both under remote control, node 0 with its output on: node 1 is still
\* under remote control with its output now on, node 0 is as it was.
C16_Witness ==
    /\ call.name = "set_output_on" /\ call.on /\ call.node = 1
    /\ call.writes = 1
    /\ SubSeq(LastTelegram, 1, 5) = <<241, 1, 54, 1, 1>>
    /\ dev = [n \in Nodes |-> 17]

\* the objects whose values are scaled by a nominal value
ScaledObjects == {38, 39, 50, 51, 71, 72}

\* what holds of the wire and of the nominal values in every state
NominalFirstState ==
    /\ Len(wire) >= 1 => wire[1] = <<112, 0, 2, 0, 114>>
    /\ Len(wire) >= 2 => wire[2] = <<112, 0, 3, 0, 115>>
    /\ \A k \in 1..Len(wire) :
            wire[k][3] \in ScaledObjects =>
                /\ k >= 3
                /\ pc \notin {"new", "init_u", "init_i"}
                /\ call.at \notin {"init_u", "init_i"}
    /\ (call.name = "get_nominal_voltage" /\ call.outcome = "returned") =>
            /\ u_nom = unpack_f(Slice(ans, 3, -2))
            /\ ans = <<131, 0, 2, 65, 192, 0, 0, 1, 70>> => u_nom = Rat(24, 1)
    /\ (call.name = "get_nominal_current" /\ call.outcome = "returned") =>
            i_nom = unpack_f(Slice(ans, 3, -2))
    /\ (call.at \in {"init_u", "init_i"} /\ call.outcome # "returned") =>
            /\ pc = "dead"
            /\ \A k \in 1..Len(wire) : wire[k][3] \notin ScaledObjects

\* C17: the first two telegrams after the port is opened are the Query of
\* object 2 and the Query of object 3, both of node 0; u_nom and i_nom are
\* the values decoded from their answers and keep them from then on, so they
\* hold them before any telegram for a scaled object (38, 39, 50, 51, 71, 72)
\* is written; when one of the two reads fails the program ends and no such
\* telegram is ever written.
C17_NominalFirst ==
    [][/\ NominalFirstState'
       /\ pc # "init_u" => u_nom' = u_nom
       /\ pc # "init_i" => i_nom' = i_nom]_vars

\* C17 witness: set_voltage(12) wrote its telegram, the fourth or a later one
\* on the wire, scaled by the nominal voltage 24.0 read by the constructor.
C17_Witness ==
    /\ call.name = "set_voltage"
    /\ u_nom = Rat(24, 1)
    /\ Len(wire) >= 4
    /\ SubSeq(LastTelegram, 3, 5) = <<50, 50, 0>>
    /\ wire[1][3] = 2 /\ wire[2][3] = 3

\* C18: for every accepted answer with a payload of two bytes get_control
\* returns remote = bit 0 of payload byte 0 and output_on = bit 0 of payload
\* byte 1: both for the payload 01 01, neither for 00 00, and no other bit of
\* the payload changes the result.
C18_ControlDecode ==
    (call.name = "get_control" /\ call.status = "ok"
            /\ Len(Slice(ans, 3, -2)) = 2) =>
        LET payload == Slice(ans, 3, -2)
        IN  /\ call.outcome = "returned"
            /\ call.value.kind = "control"
            /\ call.value.b = (BitAnd(payload[1], 1) = 1)
            /\ call.value.on = (BitAnd(payload[2], 1) = 1)
            /\ payload = <<1, 1>> => (call.value.b /\ call.value.on)
            /\ payload = <<0, 0>> => (~ call.value.b /\ ~ call.value.on)
            /\ payload = <<254, 254>> => (~ call.value.b /\ ~ call.value.on)
            /\ payload = <<255, 255>> => (call.value.b /\ call.value.on)

\* C18 witness: get_control decoded the payload 02 01, where bit 0 of byte 0
\* is clear while bit 1 is set: not remote, output on.
C18_Witness ==
    /\ call.name = "get_control"
    /\ call.outcome = "returned"
    /\ Slice(ans, 3, -2) = <<2, 1>>
    /\ ~ call.value.b
    /\ call.value.on

\* C19: a port the constructor opened is closed when the program has ended,
\* on every path: also when a read of the constructor, __enter__ or __exit__
\* failed.
C19_PortReleased ==
    (Ended /\ port # "unopened") => port = "closed"

\* a Send telegram that sets the output state: object 54, mask 0x01
IsSetOutput(t) == IsControlSend(t) /\ t[4] = 1

\* C20: in a run of the script with --on, --off or --toggle and node n, every
\* Send telegram that sets the output state is addressed to node n and is
\* written after a set-remote(true) to node n and before every
\* set-remote(false) to node n; for n = 1 the session is a triple session.
C20_ScriptInsideScope ==
    /\ args.node = 1 => triple
    /\ \A k \in 1..Len(wire) :
            IsSetOutput(wire[k]) =>
                /\ wire[k][2] = args.node
                /\ \E j \in 1..(k - 1) : IsSetRemote(wire[j], args.node, TRUE)
                /\ \A j \in 1..Len(wire) :
                        IsSetRemote(wire[j], args.node, FALSE) => j > k

\* C20 witness: the script ran --toggle for node 1 to its end: the output of
\* node 1 was set, and the release of node 1 is the last telegram.
C20_Witness ==
    /\ pc = "done"
    /\ args.mode = "toggle" /\ args.node = 1
    /\ \E k \in 1..Len(wire) : IsSetOutput(wire[k]) /\ wire[k][2] = 1
    /\ IsSetRemote(LastTelegram, 1, FALSE)
====
